---- MODULE Spec2Model ----
(***************************************************************************)
(* playwright-search: one command-line invocation drives a browser through *)
(* one search.  The model follows src_py/playwright_search: the            *)
(* orchestrator (main.py), the driver (browser_manager.py), the engine     *)
(* registry (engines/factory.py) and the Google extractor                  *)
(* (engines/google.py over engines/base.py).                               *)
(*                                                                         *)
(* Strings that the code takes apart (paths) are sequences of tokens; an   *)
(* optional value is <<>> (Python's None) or <<v>>.                        *)
(***************************************************************************)
EXTENDS Integers, Sequences, FiniteSets, TLC

\* ------------------------------------------------------------------ bounds
\* The largest --limit a run asks for.
MaxLimit == 1
\* The most hyperlink elements on a rendered page.
MaxLinks == 1
\* The same for the pages with awkward texts, where the order of the
\* results is looked at.
MaxTextLinks == 2

\* ------------------------------------------------------- optional values
None == <<>>
Some(v) == <<v>>
IsNone(o) == o = <<>>
The(o) == o[1]

\* The elements of a sequence.
Range(q) == {q[i] : i \in DOMAIN q}

\* ------------------------------------------------------------------ paths
\* A path is a sequence of tokens; "/" is the separator and ".json" the
\* substring BrowserManager.__init__ looks for.
DefaultStateFile == <<".", "/", "browser-state", ".json">>

\* The base paths a caller configures: a bare file name, a file in a
\* directory that may not exist yet, a name without ".json", and a name
\* whose directory part holds ".json" too.
StateFileChoices ==
    { <<"s", ".json">>,
      <<"d", "/", "s", ".json">>,
      <<".", "/", "s">>,
      <<"d", ".json", "/", "s", ".json">> }

RECURSIVE ReplaceJson(_)
\* str.replace(".json", "-fingerprint.json"): every occurrence.
ReplaceJson(p) ==
    IF p = <<>> THEN <<>>
    ELSE (IF Head(p) = ".json" THEN <<"-fingerprint", ".json">> ELSE <<Head(p)>>)
         \o ReplaceJson(Tail(p))

\* The index of the last "/" of p, 0 when it has none (str.rfind + 1).
LastSep(p) ==
    LET S == {i \in 1..Len(p) : p[i] = "/"}
    IN IF S = {} THEN 0 ELSE CHOOSE i \in S : \A j \in S : j <= i

RECURSIVE RStripSep(_)
RStripSep(p) ==
    IF p # <<>> /\ p[Len(p)] = "/" THEN RStripSep(SubSeq(p, 1, Len(p) - 1)) ELSE p

\* os.path.dirname (posixpath): the head up to the last "/", its trailing
\* separators dropped unless it is separators only.
DirName(p) ==
    LET head == SubSeq(p, 1, LastSep(p))
    IN IF head # <<>> /\ (\E i \in 1..Len(head) : head[i] # "/")
       THEN RStripSep(head) ELSE head

\* ------------------------------------------------------------ file system
\* fs.dirs: the directories that exist; fs.files: path -> content.
\* The working directory is "." and is also what an empty directory part
\* of a path stands for when a file is opened.
SessionBlob(tag) == [kind |-> "session", body |-> <<tag>>]
FingerprintDoc(fp) == [kind |-> "json", body |-> <<fp>>]
Garbage == [kind |-> "garbage", body |-> <<>>]

\* os.path.exists: the empty path does not exist.
PathExists(f, p) == p \in f.dirs \/ p \in DOMAIN f.files

\* open(p, "w") and the driver's snapshot write succeed only in a directory
\* that exists.
CanWrite(f, p) == DirName(p) = <<>> \/ DirName(p) \in f.dirs

WriteFile(f, p, c) ==
    [f EXCEPT !.files = [q \in DOMAIN f.files \cup {p} |-> IF q = p THEN c ELSE f.files[q]]]

\* os.makedirs(d): raises on the empty path, creates d otherwise.
CanMakeDirs(d) == d # <<>>
MakeDirs(f, d) == [f EXCEPT !.dirs = f.dirs \cup {d}]

\* ------------------------------------------------------------ fingerprint
DeviceList == {"Desktop Chrome", "Desktop Edge", "Desktop Firefox"}
TimezoneList == {"America/New_York", "Europe/London", "Asia/Shanghai"}
Hours == 0..23
\* devices[device_name]['user_agent']
UserAgentOf(device) == <<"user-agent of", device>>

\* ColorSchemeAt with both comparisons strict.
ColorSchemeAt_Strict(hour) == IF hour > 18 \/ hour < 6 THEN "dark" ELSE "light"

\* `color_scheme = "dark" if hour >= 18 or hour <= 6 else "light"`
ColorSchemeAt(hour) == IF hour >= 18 \/ hour <= 6 THEN "dark" ELSE "light"

\* `self.options.locale or os.getenv("LANG", "zh-CN")`
SystemLocale(opts, lang) ==
    IF ~IsNone(opts.locale) /\ The(opts.locale) # "" THEN The(opts.locale)
    ELSE IF IsNone(lang) THEN "zh-CN" ELSE The(lang)

\* The dictionary _get_host_machine_config returns.
Fingerprint(locale, color, device, tz) ==
    [ deviceName    |-> device,
      locale        |-> locale,
      timezoneId    |-> tz,
      colorScheme   |-> color,
      reducedMotion |-> "no-preference",
      forcedColors  |-> "none",
      userAgent     |-> UserAgentOf(device) ]

\* BrowserManager._get_host_machine_config with its three reads of the
\* environment made explicit: the clock's hour and the two random choices.
HostMachineConfig(opts, lang, hour, device, tz) ==
    Fingerprint(SystemLocale(opts, lang), ColorSchemeAt(hour), device, tz)

\* Every fingerprint one synthesis can return: any hour, any device of the
\* list, any timezone of the list.
Synthesized(opts, lang) ==
    { Fingerprint(SystemLocale(opts, lang), c, d, z) :
        c \in {ColorSchemeAt(h) : h \in Hours}, d \in DeviceList, z \in TimezoneList }

\* ---------------------------------------------------------------- options
\* The keyword arguments click hands to cli(): one per declared option,
\* named after the option (main.py:14-25).
ClickKwargs(limit, stateFile, noSave, engine) ==
    [ limit |-> limit, state_file |-> stateFile, no_save_state |-> noSave,
      engine |-> engine ]

\* The same settings given under the names CommandOptions declares as
\* aliases (types.py:26-27).
AliasKwargs(limit, stateFile, noSave, engine) ==
    [ limit |-> limit, stateFile |-> stateFile, noSaveState |-> noSave,
      engine |-> engine ]

Get(kw, key) == IF key \in DOMAIN kw THEN Some(kw[key]) ELSE None

\* CommandOptions(**kwargs): a field with an alias is populated under its
\* alias only; a keyword that names no field or alias is ignored.
CommandOptions(kw) ==
    [ limit         |-> Get(kw, "limit"),
      state_file    |-> Get(kw, "stateFile"),
      no_save_state |-> Get(kw, "noSaveState"),
      locale        |-> Get(kw, "locale"),
      engine        |-> Get(kw, "engine") ]

\* Python's truth value of an optional flag / number / string.
Truthy(o) == ~IsNone(o) /\ The(o) # FALSE
NonZero(o) == ~IsNone(o) /\ The(o) # 0
NonEmpty(o) == ~IsNone(o) /\ The(o) # <<>>

\* BrowserManager.__init__
StateFileOf(opts) == IF NonEmpty(opts.state_file) THEN The(opts.state_file) ELSE DefaultStateFile
FingerprintFileOf(opts) == ReplaceJson(StateFileOf(opts))

\* --------------------------------------------------------------- registry
EngineNames == {"google", "Google", "bing"}
\* str.lower() on the names above.
Lower(name) == IF name = "Google" THEN "google" ELSE name
\* ENGINE_MAP's keys.
SupportedEngines == {"google"}
\* create_engine: the registry lookup.
Resolves(name) == Lower(name) \in SupportedEngines

\* ------------------------------------------------------------------ text
\* Text is a sequence of tokens: "w"-like tokens are visible characters,
\* the members of Whitespace are what str.split() splits on, and "zwsp" is
\* U+200B (which str.split() does not treat as whitespace).
Whitespace == {" ", "\t", "\n"}

RECURSIVE DropZwsp(_)
\* text.replace(U+200B, "")
DropZwsp(t) ==
    IF t = <<>> THEN <<>>
    ELSE (IF Head(t) = "zwsp" THEN <<>> ELSE <<Head(t)>>) \o DropZwsp(Tail(t))

RECURSIVE LStrip(_)
LStrip(t) == IF t # <<>> /\ Head(t) \in Whitespace THEN LStrip(Tail(t)) ELSE t

RECURSIVE RStrip(_)
RStrip(t) ==
    IF t # <<>> /\ t[Len(t)] \in Whitespace THEN RStrip(SubSeq(t, 1, Len(t) - 1)) ELSE t

\* str.strip() in Python, String.prototype.trim() in the page script.
Trim(t) == RStrip(LStrip(t))

RECURSIVE JoinWords(_)
\* " ".join(t.split()) on text without leading whitespace.
JoinWords(t) ==
    IF t = <<>> THEN <<>>
    ELSE IF Head(t) \in Whitespace
         THEN (IF LStrip(t) = <<>> THEN <<>> ELSE <<" ">> \o JoinWords(LStrip(t)))
         ELSE <<Head(t)>> \o JoinWords(Tail(t))

\* CleanText without the removal of U+200B.
CleanText_KeepZwsp(t) == IF t = <<>> THEN <<>> ELSE Trim(JoinWords(LStrip(t)))

\* BaseEngine._clean_text
CleanText(t) == IF t = <<>> THEN <<>> ELSE Trim(JoinWords(LStrip(DropZwsp(t))))

\* ------------------------------------------------------------------ pages
\* A hyperlink element of the rendered document: whether it holds an h3
\* with text, that text, its href, whether it sits in a result container
\* (div[data-sokoban-container]) that holds a snippet node, and that node's
\* text.
\* The href is the element's href property: the URL as the browser
\* resolved and serialized it, or the attribute as written when it cannot
\* be parsed, or empty when there is no attribute.  A serialized URL holds
\* no whitespace and no U+200B, and text that cannot be parsed starts with
\* its scheme.
LinkKinds ==
    { [h3 |-> TRUE, title |-> <<"T">>, href |-> <<"http", "://r">>, container |-> TRUE,
       snippet |-> <<"S">>],
      [h3 |-> TRUE, title |-> <<"T">>, href |-> <<"http", "://r">>, container |-> FALSE,
       snippet |-> <<>>],
      [h3 |-> TRUE, title |-> <<"T">>, href |-> <<"javascript:", "void">>,
       container |-> FALSE, snippet |-> <<>>] }

\* Hyperlinks whose texts need cleaning or whose href the page script must
\* turn down: padded texts with U+200B in them; an href that cannot be
\* parsed (a space in its host); a script href that mentions http; no href;
\* an href without http; no h3; a title of U+200B alone.
TextLinkKinds ==
    { [h3 |-> TRUE, title |-> <<"zwsp", " ", "T", " ", "\t", "U", "zwsp", " ">>,
       href |-> <<"http", "://r">>, container |-> TRUE,
       snippet |-> <<" ", "S", "zwsp", "\n", " ", "V", " ">>],
      [h3 |-> TRUE, title |-> <<"T">>, href |-> <<"http", "://a", " ", " ", "b">>,
       container |-> FALSE, snippet |-> <<>>],
      [h3 |-> TRUE, title |-> <<"T">>, href |-> <<"javascript:", "http">>,
       container |-> FALSE, snippet |-> <<>>],
      [h3 |-> TRUE, title |-> <<"T">>, href |-> <<>>, container |-> TRUE,
       snippet |-> <<"S">>],
      [h3 |-> TRUE, title |-> <<"T">>, href |-> <<"ftp", "://r">>, container |-> FALSE,
       snippet |-> <<>>],
      [h3 |-> FALSE, title |-> <<>>, href |-> <<"http", "://r">>, container |-> FALSE,
       snippet |-> <<>>],
      [h3 |-> TRUE, title |-> <<"zwsp">>, href |-> <<"https", "://r">>, container |-> TRUE,
       snippet |-> <<"zwsp", " ">>] }

RECURSIVE SeqsUpTo(_, _)
SeqsUpTo(S, n) ==
    IF n = 0 THEN {<<>>}
    ELSE LET shorter == SeqsUpTo(S, n - 1)
         IN shorter \cup {Append(q, x) : q \in shorter, x \in S}

\* What a navigation can render: the links in document order and whether
\* an iframe[src*="recaptcha"] is embedded.
Pages == [links : SeqsUpTo(LinkKinds, MaxLinks), recaptcha : BOOLEAN]
\* The same over the hyperlinks with awkward texts.
TextPages == [links : SeqsUpTo(TextLinkKinds, MaxTextLinks), recaptcha : BOOLEAN]

\* The result-container selector of GOOGLE_CONFIG matches something.
ContainerAppears(page) == \E i \in 1..Len(page.links) : page.links[i].container

\* `limit = self.options.limit or 10`
DefaultLimit == 10
EffectiveLimit(opts) == IF NonZero(opts.limit) THEN The(opts.limit) ELSE DefaultLimit

\* href.startsWith('javascript:') / href.includes('http')
StartsWithJavascript(href) == href # <<>> /\ Head(href) = "javascript:"
IncludesHttp(href) == \E i \in 1..Len(href) : href[i] \in {"http", "https"}

\* The snippet the page script finds for a link.
SnippetOf(link) == IF link.container THEN link.snippet ELSE <<>>

\* Retained without the test for the script scheme.
Retained_AnyScheme(link) ==
    /\ link.h3 /\ link.title # <<>>
    /\ link.href # <<>>
    /\ IncludesHttp(link.href)

\* The candidate test of the page script (google.py:106).
Retained(link) ==
    /\ link.h3 /\ link.title # <<>>
    /\ link.href # <<>>
    /\ ~StartsWithJavascript(link.href)
    /\ IncludesHttp(link.href)

RECURSIVE ExtractLoop_Prepend(_, _, _)
\* ExtractLoop with each new result put in front of the earlier ones.
ExtractLoop_Prepend(links, limit, acc) ==
    IF links = <<>> \/ Len(acc) >= limit THEN acc
    ELSE ExtractLoop_Prepend(Tail(links), limit,
            IF Retained(Head(links))
            THEN <<[title |-> Trim(Head(links).title),
                    link |-> Head(links).href,
                    snippet |-> Trim(SnippetOf(Head(links)))]>> \o acc
            ELSE acc)

RECURSIVE ExtractLoop(_, _, _)
\* The loop of the page script: stop at `limit` results, else test the
\* next link.
ExtractLoop(links, limit, acc) ==
    IF links = <<>> \/ Len(acc) >= limit THEN acc
    ELSE ExtractLoop(Tail(links), limit,
            IF Retained(Head(links))
            THEN Append(acc, [title |-> Trim(Head(links).title),
                              link |-> Head(links).href,
                              snippet |-> Trim(SnippetOf(Head(links)))])
            ELSE acc)

\* BaseEngine._create_search_result
CreateSearchResult(item) ==
    [title |-> CleanText(item.title), link |-> CleanText(item.link),
     snippet |-> CleanText(item.snippet)]

\* GoogleEngine._parse_results: the results for a rendered page.
ParseResults(page, opts) ==
    LET data == ExtractLoop(page.links, EffectiveLimit(opts), <<>>)
    IN [i \in 1..Len(data) |-> CreateSearchResult(data[i])]

\* ------------------------------------------------------------------ state
VARIABLES
    request,    \* what the caller asked for; fixed over the invocations
    envLang,    \* the LANG environment variable, <<>> when unset
    fs,         \* the file system
    fs0,        \* the file system as this invocation found it
    pc,         \* where the invocation is
    kwargs,     \* the keyword arguments main() receives, <<>> before
    options,    \* main()'s CommandOptions, <<>> before
    bm,         \* main()'s BrowserManager, <<>> (None) before
    world,      \* the driver connection, browser process, context and page
    locals,     \* launch_browser's storage_state, saved_state, fingerprint
    page,       \* the document search() saw rendered, <<>> when none
    outcome,    \* search's SearchResponse or the exception in flight
    shots,      \* the screenshots search() captured
    steps,      \* the steps search() went through, in order
    trace,      \* the events of this invocation, in order
    lastSave    \* what the previous invocation's close persisted

vars == <<request, envLang, fs, fs0, pc, kwargs, options, bm, world, locals, page,
          outcome, shots, steps, trace, lastSave>>

\* The state files given on a command line in this model.
CliStateFiles == {DefaultStateFile, <<"s", ".json">>}

\* The QUERY argument.
Queries == {"openai gpt", "tla"}

\* An invocation through click ("cli") or by a caller that builds the
\* options under their declared names ("api", the RunOptions of the spec).
Requests ==
    [ entry : {"cli"}, query : Queries, engine : EngineNames, limit : 0..MaxLimit,
      state_file : CliStateFiles, no_save_state : BOOLEAN ]
    \cup
    [ entry : {"api"}, query : Queries, engine : EngineNames, limit : 0..MaxLimit,
      state_file : StateFileChoices \cup {DefaultStateFile}, no_save_state : BOOLEAN ]

KwargsOf(r) ==
    IF r.entry = "cli"
    THEN ClickKwargs(r.limit, r.state_file, r.no_save_state, Lower(r.engine))
    ELSE AliasKwargs(r.limit, r.state_file, r.no_save_state, r.engine)

\* A fingerprint an earlier invocation left behind.
OldFingerprint ==
    HostMachineConfig([locale |-> None], None, 12, "Desktop Chrome", "Europe/London")

\* A fingerprint document that something other than close() wrote: valid
\* JSON whose "fingerprint" holds one of the seven fields.
PartialFingerprint == [deviceName |-> "Desktop Chrome"]

EmptyFS == [dirs |-> {<<".">>}, files |-> <<>>]

WithDirOf(f, p) == IF DirName(p) = <<>> THEN f ELSE MakeDirs(f, DirName(p))

\* The file systems an invocation can start in, for the two identity files
\* of its options: none, the session file alone, both, both with an
\* unreadable fingerprint file, both with an incomplete fingerprint.
InitialFS(r) ==
    LET o == CommandOptions(KwargsOf(r))
        sf == StateFileOf(o)
        ff == FingerprintFileOf(o)
        withSession == WriteFile(WithDirOf(EmptyFS, sf), sf, SessionBlob("old"))
    IN { EmptyFS,
         withSession,
         WriteFile(WithDirOf(withSession, ff), ff, FingerprintDoc(OldFingerprint)),
         WriteFile(WithDirOf(withSession, ff), ff, Garbage),
         WriteFile(WithDirOf(withSession, ff), ff, FingerprintDoc(PartialFingerprint)) }

NoWorld == [driver |-> FALSE, browser |-> FALSE, context |-> FALSE,
            stealth |-> FALSE, page |-> "none"]

Init ==
    /\ request \in Requests
    /\ envLang \in {None, Some("en_US.UTF-8")}
    /\ fs \in InitialFS(request)
    /\ fs0 = fs
    /\ pc = "entry"
    /\ kwargs = None
    /\ options = None
    /\ bm = None
    /\ world = NoWorld
    /\ locals = None
    /\ page = None
    /\ outcome = None
    /\ shots = {}
    /\ steps = <<>>
    /\ trace = <<>>
    /\ lastSave = None

\* ---------------------------------------------------------------- helpers
\* An exception, by where it was raised: "launch", "engine" or "search".
Error(origin) == Some([kind |-> "error", origin |-> origin, response |-> None])
Returned(resp) == Some([kind |-> "response", origin |-> "", response |-> Some(resp)])
\* The response once printed: main() has no further use for it.
Printed == Some([kind |-> "printed", origin |-> "", response |-> None])
Raised == ~IsNone(outcome) /\ The(outcome).kind = "error"
HasResponse == ~IsNone(outcome) /\ The(outcome).kind = "response"
Response == The(The(outcome).response)

Opts == The(options)
Manager == The(bm)

\* ----------------------------------------------------------- orchestrator
\* cli(): click checks --engine against get_supported_engines(), without
\* regard to case, before main() runs; a caller of the library hands its
\* keyword arguments over as they are.
Enter ==
    /\ pc = "entry"
    /\ IF request.entry = "cli" /\ ~Resolves(request.engine)
       THEN /\ pc' = "usage_error"
            /\ trace' = Append(trace, "usage_error")
            /\ UNCHANGED kwargs
       ELSE /\ pc' = "main"
            /\ kwargs' = Some(KwargsOf(request))
            /\ UNCHANGED trace
    /\ UNCHANGED <<request, envLang, fs, fs0, options, bm, world, locals, page,
                   outcome, shots, steps, lastSave>>

\* main(): options = CommandOptions(**kwargs); BrowserManager(options).
MainStart ==
    /\ pc = "main"
    /\ LET o == CommandOptions(The(kwargs))
       IN /\ options' = Some(o)
          /\ bm' = Some([ state_file |-> StateFileOf(o),
                          fingerprint_file |-> FingerprintFileOf(o),
                          playwright |-> FALSE, browser |-> FALSE, context |-> FALSE ])
    /\ pc' = "launch_driver"
    /\ UNCHANGED <<request, envLang, fs, fs0, kwargs, world, locals, page, outcome,
                   shots, steps, trace, lastSave>>

\* An exception that leaves main()'s try block.
ToExcept(origin) ==
    /\ outcome' = Error(origin)
    /\ pc' = "except"

\* ----------------------------------------------------------------- driver
\* launch_browser: async_playwright().start()
LaunchDriver ==
    /\ pc = "launch_driver"
    /\ \/ /\ bm' = Some([Manager EXCEPT !.playwright = TRUE])
          /\ world' = [world EXCEPT !.driver = TRUE]
          /\ trace' = Append(trace, "driver_started")
          /\ pc' = "launch_browser"
          /\ UNCHANGED outcome
       \/ /\ ToExcept("launch")
          /\ UNCHANGED <<bm, world, trace>>
    /\ UNCHANGED <<request, envLang, fs, fs0, kwargs, options, locals, page, shots,
                   steps, lastSave>>

\* launch_browser: playwright.chromium.launch(...)
LaunchBrowser ==
    /\ pc = "launch_browser"
    /\ \/ /\ bm' = Some([Manager EXCEPT !.browser = TRUE])
          /\ world' = [world EXCEPT !.browser = TRUE]
          /\ trace' = Append(trace, "browser_launched")
          /\ pc' = "launch_context"
          /\ UNCHANGED outcome
       \/ /\ ToExcept("launch")
          /\ UNCHANGED <<bm, world, trace>>
    /\ UNCHANGED <<request, envLang, fs, fs0, kwargs, options, locals, page, shots,
                   steps, lastSave>>

\* _load_saved_state: the session file to seed the context with.
StorageState(f, m) == IF PathExists(f, m.state_file) THEN Some(m.state_file) ELSE None

\* _load_saved_state: saved_state.get("fingerprint"), <<>> when the session
\* file or the fingerprint file is missing, the fingerprint file cannot be
\* read as JSON, or it holds no fingerprint.
SavedFingerprint(f, m) ==
    IF /\ PathExists(f, m.state_file)
       /\ m.fingerprint_file \in DOMAIN f.files
       /\ f.files[m.fingerprint_file].kind = "json"
    THEN f.files[m.fingerprint_file].body
    ELSE None

\* What one synthesis reads from its environment: the clock's hour and the
\* outcomes of its two random choices.
SynthesisReads == [hour : Hours, device : DeviceList, tz : TimezoneList]

\* `saved_state.get("fingerprint") or self._get_host_machine_config()`:
\* the synthesis runs only when nothing was loaded.
FingerprintFor(saved, opts, lang, e) ==
    IF IsNone(saved) THEN HostMachineConfig(opts, lang, e.hour, e.device, e.tz)
    ELSE The(saved)

\* launch_browser: load the identity, pick the fingerprint, new_context.
\* locals.hour is the hour the synthesis read, <<>> when none ran.
LaunchContext ==
    /\ pc = "launch_context"
    /\ \/ LET saved == SavedFingerprint(fs, Manager)
          IN \E e \in SynthesisReads :
               /\ locals' = Some([ storage_state |-> StorageState(fs, Manager),
                                   saved_state |-> saved,
                                   fingerprint |-> FingerprintFor(saved, Opts, envLang, e),
                                   hour |-> IF IsNone(saved) THEN Some(e.hour) ELSE None ])
               /\ bm' = Some([Manager EXCEPT !.context = TRUE])
               /\ world' = [world EXCEPT !.context = TRUE]
               /\ pc' = "launch_stealth"
               /\ UNCHANGED outcome
       \/ /\ ToExcept("launch")
          /\ UNCHANGED <<bm, world, locals>>
    /\ UNCHANGED <<request, envLang, fs, fs0, kwargs, options, page, shots, steps,
                   trace, lastSave>>

\* LaunchStealth without the stealth pass: launch returns the context as
\* new_context made it.
LaunchStealth_Skipped ==
    /\ pc = "launch_stealth"
    /\ locals' = None
    /\ \/ /\ trace' = Append(trace, "launched")
          /\ pc' = "create_engine"
          /\ UNCHANGED <<outcome, world>>
       \/ /\ ToExcept("launch")
          /\ UNCHANGED <<world, trace>>
    /\ UNCHANGED <<request, envLang, fs, fs0, kwargs, options, bm, page, shots,
                   steps, lastSave>>

\* launch_browser: stealth_async(context), default timeout, return.
LaunchStealth ==
    /\ pc = "launch_stealth"
    /\ locals' = None
    /\ \/ /\ world' = [world EXCEPT !.stealth = TRUE]
          /\ trace' = Append(trace, "launched")
          /\ pc' = "create_engine"
          /\ UNCHANGED outcome
       \/ /\ ToExcept("launch")
          /\ UNCHANGED <<world, trace>>
    /\ UNCHANGED <<request, envLang, fs, fs0, kwargs, options, bm, page, shots,
                   steps, lastSave>>

\* main(): create_engine(options.engine, options)
CreateEngine ==
    /\ pc = "create_engine"
    /\ IF Resolves(The(Opts.engine))
       THEN pc' = "search" /\ UNCHANGED outcome
       ELSE ToExcept("engine")
    /\ UNCHANGED <<request, envLang, fs, fs0, kwargs, options, bm, world, locals,
                   page, shots, steps, trace, lastSave>>

\* -------------------------------------------------------------- extractor
\* What the environment can do to one search(): the first step that fails
\* (a timeout, a closed target), and whether screenshots can be written.
SearchFaults == {"none", "new_page", "navigation", "humanize", "load_state"}

\* SearchResponse(...) as search() builds it.
SearchResponse(query, results) ==
    [query |-> query, results |-> results, totalResults |-> Len(results),
     engine |-> "Google"]

\* GoogleEngine._handle_anti_bot, its try block: the probe for the
\* challenge frame.  When the frame is there the code logs, takes a
\* screenshot (which can fail) and raises; when it is not, the wait times
\* out.  Either exception is caught by the method's own `except Exception`,
\* which goes on to the generic humanization.
ProbeSteps(p, shotsOk) ==
    IF ~p.recaptcha THEN <<>>
    ELSE IF shotsOk THEN <<"challenge_detected">>
    ELSE <<"challenge_detected", "screenshot_failed">>
ProbeShots(p, shotsOk) == IF p.recaptcha /\ shotsOk THEN {"google-recaptcha.png"} ELSE {}

\* search(): except Exception: log, screenshot, raise.
ExceptShots(shotsOk) == IF shotsOk THEN {"google-error-screenshot.png"} ELSE {}

\* _parse_results: the screenshot taken when nothing was extracted.
EmptyShots(results) == IF results = <<>> THEN {"google-screenshot.png"} ELSE {}

\* SearchRun with page.close() at the end of the except clause (and after
\* the return) in place of the finally block: a screenshot that fails in
\* the except clause leaves the page open.
SearchRun_CloseInExcept(q, p, o, fault, shotsOk) ==
    LET results == ParseResults(p, o)
        toProbe == <<"new_page", "navigate">> \o ProbeSteps(p, shotsOk)
        failed(pg, before, taken) ==
            [ opened |-> TRUE, page |-> pg, outcome |-> Error("search"),
              shots |-> before \cup ExceptShots(shotsOk),
              steps |-> taken \o <<"except">>
                        \o (IF shotsOk THEN <<"page_closed">>
                            ELSE <<"screenshot_failed">>) ]
    IN IF fault = "new_page"
       THEN [ opened |-> FALSE, page |-> None, outcome |-> Error("search"),
              shots |-> {}, steps |-> <<>> ]
       ELSE IF fault = "navigation"
       THEN failed(None, {}, <<"new_page">>)
       ELSE IF fault = "humanize"
       THEN failed(Some(p), ProbeShots(p, shotsOk), toProbe)
       ELSE IF fault = "load_state"
       THEN failed(Some(p), ProbeShots(p, shotsOk), toProbe \o <<"humanize">>)
       ELSE IF results = <<>> /\ ~shotsOk
       THEN failed(Some(p), ProbeShots(p, shotsOk),
                   toProbe \o <<"humanize", "extract", "screenshot_failed">>)
       ELSE [ opened |-> TRUE, page |-> Some(p),
              outcome |-> Returned(SearchResponse(q, results)),
              shots |-> ProbeShots(p, shotsOk) \cup EmptyShots(results),
              steps |-> toProbe \o <<"humanize", "extract", "page_closed">> ]

\* GoogleEngine.search for query q on a page that renders as p: whether the
\* page was opened, the document seen, the response or exception, the screenshots
\* and the steps taken.  Every path that opened the page ends in the
\* finally block's page.close().
SearchRun(q, p, o, fault, shotsOk) ==
    LET results == ParseResults(p, o)
        toProbe == <<"new_page", "navigate">> \o ProbeSteps(p, shotsOk)
        failed(pg, before, taken) ==
            [ opened |-> TRUE, page |-> pg, outcome |-> Error("search"),
              shots |-> before \cup ExceptShots(shotsOk),
              steps |-> taken \o <<"except">>
                        \o (IF shotsOk THEN <<>> ELSE <<"screenshot_failed">>)
                        \o <<"page_closed">> ]
    IN IF fault = "new_page"
       THEN [ opened |-> FALSE, page |-> None, outcome |-> Error("search"),
              shots |-> {}, steps |-> <<>> ]
       ELSE IF fault = "navigation"
       THEN failed(None, {}, <<"new_page">>)
       ELSE IF fault = "humanize"
       THEN failed(Some(p), ProbeShots(p, shotsOk), toProbe)
       ELSE IF fault = "load_state"
       THEN failed(Some(p), ProbeShots(p, shotsOk), toProbe \o <<"humanize">>)
       ELSE IF results = <<>> /\ ~shotsOk
       THEN failed(Some(p), ProbeShots(p, shotsOk),
                   toProbe \o <<"humanize", "extract", "screenshot_failed">>)
       ELSE [ opened |-> TRUE, page |-> Some(p),
              outcome |-> Returned(SearchResponse(q, results)),
              shots |-> ProbeShots(p, shotsOk) \cup EmptyShots(results),
              steps |-> toProbe \o <<"humanize", "extract", "page_closed">> ]

\* main(): results = await search_engine.search(context, query), the site
\* rendering one of the pages of P.
SearchOn(P) ==
    /\ pc = "search"
    /\ \E p \in P, fault \in SearchFaults, shotsOk \in BOOLEAN :
         LET r == SearchRun(request.query, p, Opts, fault, shotsOk)
         IN /\ page' = r.page
            /\ outcome' = r.outcome
            /\ shots' = r.shots
            /\ steps' = r.steps
            /\ world' = [world EXCEPT !.page =
                           IF ~r.opened THEN "none"
                           ELSE IF "page_closed" \in Range(r.steps) THEN "closed"
                           ELSE "open"]
            /\ pc' = IF The(r.outcome).kind = "error" THEN "except" ELSE "output"
    /\ UNCHANGED <<request, envLang, fs, fs0, kwargs, options, bm, locals, trace,
                   lastSave>>

Search == SearchOn(Pages)
SearchText == SearchOn(TextPages)

\* main(): click.echo(results.model_dump_json(indent=2))
MainOutput ==
    /\ pc = "output"
    /\ trace' = Append(trace, "output")
    /\ outcome' = Printed
    /\ page' = None
    /\ shots' = {}
    /\ steps' = <<>>
    /\ pc' = "finally"
    /\ UNCHANGED <<request, envLang, fs, fs0, kwargs, options, bm, world, locals,
                   lastSave>>

\* MainExcept with the report left to after the teardown, that is, not made
\* here.
MainExcept_ReportLater ==
    /\ pc = "except"
    /\ page' = None
    /\ shots' = {}
    /\ steps' = <<>>
    /\ pc' = "finally"
    /\ UNCHANGED <<request, envLang, fs, fs0, kwargs, options, bm, world, locals,
                   outcome, trace, lastSave>>

\* main(): except Exception as e: logger.error(...); nothing is re-raised.
MainExcept ==
    /\ pc = "except"
    /\ trace' = Append(trace, "error_reported")
    /\ page' = None
    /\ shots' = {}
    /\ steps' = <<>>
    /\ pc' = "finally"
    /\ UNCHANGED <<request, envLang, fs, fs0, kwargs, options, bm, world, locals,
                   outcome, lastSave>>

\* ------------------------------------------------------------------ close
\* PersistRequested without the test for a session context.
PersistRequested_AnyContext(m, o) == ~Truthy(o.no_save_state)

\* close(): `if self.context and not (self.options.no_save_state)`
PersistRequested(m, o) == m.context /\ ~Truthy(o.no_save_state)

\* The faults the environment can inject into the persistence step: none,
\* or an I/O error in makedirs, in the snapshot write, in the fingerprint
\* write.
SaveFaults == {"none", "mkdir", "snapshot", "fingerprint"}

\* The try block of close(): the directory, the session snapshot, a newly
\* synthesized fingerprint fp.  The first failing step ends the block.
\* Result: the file system left behind, the fingerprint written (<<>> when
\* none was), and whether an injected fault is what stopped it.
Save(f, m, fp, fault) ==
    LET dir == DirName(m.state_file)
        needMk == ~PathExists(f, dir)
        mkFails == needMk /\ (~CanMakeDirs(dir) \/ fault = "mkdir")
        f1 == IF needMk /\ ~mkFails THEN MakeDirs(f, dir) ELSE f
        snapFails == ~CanWrite(f1, m.state_file) \/ fault = "snapshot"
        f2 == WriteFile(f1, m.state_file, SessionBlob("live"))
        fpFails == ~CanWrite(f2, m.fingerprint_file) \/ fault = "fingerprint"
        f3 == WriteFile(f2, m.fingerprint_file, FingerprintDoc(fp))
    IN IF mkFails
       THEN [fs |-> f, wrote |-> None, injected |-> CanMakeDirs(dir)]
       ELSE IF snapFails
       THEN [fs |-> f1, wrote |-> None, injected |-> CanWrite(f1, m.state_file)]
       ELSE IF fpFails
       THEN [fs |-> f2, wrote |-> None, injected |-> CanWrite(f2, m.fingerprint_file)]
       ELSE [fs |-> f3, wrote |-> Some(fp), injected |-> FALSE]

\* ReleaseSteps with the driver connection stopped before the browser is
\* closed.
ReleaseSteps_DriverFirst(m) ==
    (IF m.playwright THEN <<"driver_stopped">> ELSE <<>>)
    \o (IF m.browser THEN <<"browser_closed">> ELSE <<>>)

\* close(): `if self.browser: await self.browser.close()` and then
\* `if self.playwright: await self.playwright.stop()`, as events.
ReleaseSteps(m) ==
    (IF m.browser THEN <<"browser_closed">> ELSE <<>>)
    \o (IF m.playwright THEN <<"driver_stopped">> ELSE <<>>)

\* Released without the `playwright.stop()`.
Released_DriverLeft(w, m) ==
    [ w EXCEPT !.browser = IF m.browser THEN FALSE ELSE @,
               !.context = IF m.browser THEN FALSE ELSE @,
               !.page = IF m.browser /\ @ = "open" THEN "closed" ELSE @ ]

\* What the two release steps leave: closing the browser disposes of its
\* contexts and their pages with it.
Released(w, m) ==
    [ w EXCEPT !.browser = IF m.browser THEN FALSE ELSE @,
               !.context = IF m.browser THEN FALSE ELSE @,
               !.page = IF m.browser /\ @ = "open" THEN "closed" ELSE @,
               !.driver = IF m.playwright THEN FALSE ELSE @ ]

\* MainFinally with a failure of the persistence step leaving close() as an
\* exception: nothing after the try block runs.
MainFinally_SaveRaises ==
    /\ pc = "finally"
    /\ IF IsNone(bm)
       THEN UNCHANGED <<fs, lastSave, trace, world>>
       ELSE IF PersistRequested(Manager, Opts)
            THEN \E fault \in SaveFaults :
                 \E fp \in IF fault = "none" THEN Synthesized(Opts, envLang)
                           ELSE {OldFingerprint} :
                   LET r == Save(fs, Manager, fp, fault)
                   IN /\ fs' = r.fs
                      /\ lastSave' = Some([wrote |-> r.wrote, injected |-> r.injected])
                      /\ IF IsNone(r.wrote)
                         THEN /\ trace' = trace \o <<"close_begin", "persist_warning">>
                              /\ UNCHANGED world
                         ELSE /\ trace' = trace \o <<"close_begin", "persisted">>
                                           \o ReleaseSteps(Manager) \o <<"close_done">>
                              /\ world' = Released(world, Manager)
            ELSE /\ lastSave' = None
                 /\ trace' = trace \o <<"close_begin">> \o ReleaseSteps(Manager)
                                   \o <<"close_done">>
                 /\ world' = Released(world, Manager)
                 /\ UNCHANGED fs
    /\ pc' = "done"
    /\ UNCHANGED <<request, envLang, fs0, kwargs, options, bm, locals, page,
                   outcome, shots, steps>>

\* main(): finally: if browser_manager: await browser_manager.close().
\* close() persists first (its exceptions are logged, not raised), then
\* releases.
MainFinally ==
    /\ pc = "finally"
    /\ IF IsNone(bm)
       THEN UNCHANGED <<fs, lastSave, trace, world>>
       ELSE /\ IF PersistRequested(Manager, Opts)
               THEN \E fault \in SaveFaults :
                    \E fp \in IF fault = "none" THEN Synthesized(Opts, envLang)
                              ELSE {OldFingerprint} :
                      LET r == Save(fs, Manager, fp, fault)
                      IN /\ fs' = r.fs
                         /\ lastSave' = Some([wrote |-> r.wrote, injected |-> r.injected])
                         /\ trace' = trace
                               \o <<"close_begin",
                                    IF IsNone(r.wrote) THEN "persist_warning" ELSE "persisted">>
                               \o ReleaseSteps(Manager) \o <<"close_done">>
               ELSE /\ lastSave' = None
                    /\ trace' = trace \o <<"close_begin">> \o ReleaseSteps(Manager)
                                      \o <<"close_done">>
                    /\ UNCHANGED fs
            /\ world' = Released(world, Manager)
    /\ pc' = "done"
    /\ UNCHANGED <<request, envLang, fs0, kwargs, options, bm, locals, page,
                   outcome, shots, steps>>

\* The process has ended; the same command is run again on the files the
\* earlier invocations left.
Restart ==
    /\ pc \in {"done", "usage_error"}
    /\ pc' = "entry"
    /\ kwargs' = None
    /\ options' = None
    /\ bm' = None
    /\ world' = NoWorld
    /\ locals' = None
    /\ page' = None
    /\ outcome' = None
    /\ shots' = {}
    /\ steps' = <<>>
    /\ trace' = <<>>
    /\ fs0' = fs
    /\ UNCHANGED <<request, envLang, fs, lastSave>>

Next ==
    \/ Enter
    \/ MainStart
    \/ LaunchDriver
    \/ LaunchBrowser
    \/ LaunchContext
    \/ LaunchStealth
    \/ CreateEngine
    \/ Search
    \/ MainOutput
    \/ MainExcept
    \/ MainFinally

\* The query reaches nothing but the search URL and the response's query
\* field: outside the extraction it is held at one value.
InitOneQuery ==
    /\ Init
    /\ request.query = "openai gpt"

\* One invocation.
Spec == InitOneQuery /\ [][Next]_vars

\* One invocation with the default locale, asking for MaxLimit results, its
\* state file the default one or a bare file name.
InitFair ==
    /\ Init
    /\ request.limit = MaxLimit
    /\ request.query = "openai gpt"
    /\ request.state_file \in CliStateFiles
    /\ envLang = None

\* One invocation is a single flow of control on asyncio's loop and every
\* wait in it is bounded: a step that can be taken is taken.
FairSpec == InitFair /\ [][Next]_vars /\ WF_vars(Next)

\* Invocation after invocation by a caller of the library, each on the
\* files the one before left.
InitRuns ==
    /\ Init
    /\ request.entry = "api"
    /\ request.query = "openai gpt"
    /\ request.limit = MaxLimit
    /\ envLang = None

NextRuns ==
    \/ Next
    \/ Restart

RunsSpec == InitRuns /\ [][NextRuns]_vars

\* One invocation that does not persist, on a site that renders the pages
\* with awkward texts.
InitExtract ==
    /\ Init
    /\ request.entry = "api"
    /\ request.engine = "google"
    /\ request.state_file = DefaultStateFile
    /\ request.no_save_state
    /\ envLang = None
    /\ fs = EmptyFS

NextExtract ==
    \/ Enter
    \/ MainStart
    \/ LaunchDriver
    \/ LaunchBrowser
    \/ LaunchContext
    \/ LaunchStealth
    \/ CreateEngine
    \/ SearchText
    \/ MainOutput
    \/ MainExcept
    \/ MainFinally

ExtractSpec == InitExtract /\ [][NextExtract]_vars

\* ----------------------------------------------------------------- claims
\* The first position of event e in sequence q, 0 when it is not there.
Pos(q, e) ==
    IF e \in Range(q) THEN CHOOSE i \in DOMAIN q : q[i] = e /\ \A j \in 1..(i - 1) : q[j] # e
    ELSE 0

SearchRaised == Raised /\ The(outcome).origin = "search"

\* C1: when the challenge probe finds the verification frame, search fails:
\* neither the generic humanization nor the extraction is executed and no
\* SearchResponse is returned.
C1_ChallengeAborts ==
    "challenge_detected" \in Range(steps)
        => /\ ~HasResponse
           /\ "humanize" \notin Range(steps)
           /\ "extract" \notin Range(steps)

\* C2: once launch_browser has returned, whatever happens next (search
\* returns, search raises, the engine name does not resolve), close runs to
\* its end and the browser process and the driver connection are released.
C2_TeardownAfterLaunch ==
    (pc = "create_engine")
        ~> (pc = "done" /\ "close_done" \in Range(trace)
            /\ ~world.browser /\ ~world.driver)

\* A run whose search raised after a successful launch, closed and released.
C2_Witness ==
    /\ pc = "done"
    /\ "launched" \in Range(trace)
    /\ SearchRaised
    /\ "close_done" \in Range(trace)
    /\ ~world.browser /\ ~world.driver

\* C3: with the skip-persist flag given, close writes nothing: the file
\* system after close is the one the run found.
C3_SkipPersistWritesNothing ==
    (request.no_save_state /\ pc = "done") => fs = fs0

\* C4: the number of results is at most the requested limit, for every
\* limit >= 0.
C4_AtMostLimit ==
    HasResponse => Len(Response.results) <= request.limit

C6_ContainerTimeoutSnapshot ==
    (/\ HasResponse
     /\ ~ContainerAppears(The(page))
     /\ "screenshot_failed" \notin Range(steps))
        => shots # {}

\* The identity files of this run's BrowserManager.
IdentityFiles == {Manager.state_file, Manager.fingerprint_file}

\* The persistence step ran and no fault was injected into it.
SavedUndisturbed == ~IsNone(lastSave) /\ ~The(lastSave).injected

\* C7: neither identity file existed, persistence is enabled, search
\* succeeded and close completed (no I/O fault injected): both files exist.
C7_FilesExistAfterRun ==
    (/\ pc = "done"
     /\ outcome = Printed
     /\ ~Truthy(Opts.no_save_state)
     /\ SavedUndisturbed
     /\ IdentityFiles \cap DOMAIN fs0.files = {})
        => IdentityFiles \subseteq DOMAIN fs.files

SevenKeys == {"deviceName", "locale", "timezoneId", "colorScheme",
              "reducedMotion", "forcedColors", "userAgent"}

\* C8: after a save (no I/O fault injected), the load of the next run yields
\* the fingerprint that save wrote, and it has exactly the seven keys.
C8_SaveLoadRoundTrip ==
    (pc = "launch_stealth" /\ SavedUndisturbed)
        => /\ ~IsNone(The(lastSave).wrote)
           /\ The(locals).saved_state = The(lastSave).wrote
           /\ DOMAIN The(The(locals).saved_state) = SevenKeys

\* C9 as stated: when search raises, the error is reported only after close
\* has completed.
C9_ErrorAfterClose ==
    (SearchRaised /\ "error_reported" \in Range(trace))
        => /\ "close_done" \in Range(trace)
           /\ Pos(trace, "close_done") < Pos(trace, "error_reported")

\* C9 amended: when search raises, the orchestrator reports the error first
\* and tears the driver down after it: by the end of the run the report,
\* the start of close, the persistence step (unless disabled) and the end of
\* close have happened in this order.
C9_ErrorThenClose ==
    (SearchRaised /\ pc \in {"finally", "done"})
        => /\ Pos(trace, "error_reported") > 0
           /\ "close_begin" \notin Range(SubSeq(trace, 1, Pos(trace, "error_reported")))
           /\ pc = "done"
                => /\ Pos(trace, "error_reported") < Pos(trace, "close_begin")
                   /\ Pos(trace, "close_begin") < Pos(trace, "close_done")
                   /\ ~Truthy(Opts.no_save_state)
                        => \E e \in {"persisted", "persist_warning"} :
                             /\ Pos(trace, "close_begin") < Pos(trace, e)
                             /\ Pos(trace, e) < Pos(trace, "close_done")

\* A run whose search raised, which reported it and then persisted.
C9_Witness ==
    /\ pc = "done"
    /\ SearchRaised
    /\ "persisted" \in Range(trace)
    /\ Pos(trace, "error_reported") < Pos(trace, "close_begin")

IsRelease(e) == e \in {"context_closed", "browser_closed", "driver_stopped"}

\* C10 as stated: every close performs three release steps, the session
\* context, the browser process, the driver connection, in this order.
C10_ThreeReleaseSteps ==
    "close_done" \in Range(trace)
        => SelectSeq(trace, IsRelease)
             = <<"context_closed", "browser_closed", "driver_stopped">>

\* C10 amended: every close, persisting or not, its save failing or not,
\* releases in this order: the browser process if one was launched (its
\* session context goes with it; no step closes the context on its own),
\* then the driver connection if one was started; all after the
\* persistence step.
C10_ReleaseOrder ==
    "close_done" \in Range(trace)
        => /\ SelectSeq(trace, IsRelease)
                = (IF "browser_launched" \in Range(trace) THEN <<"browser_closed">> ELSE <<>>)
                  \o (IF "driver_started" \in Range(trace) THEN <<"driver_stopped">> ELSE <<>>)
           /\ ~world.context /\ ~world.browser /\ ~world.driver
           /\ \A e \in {"persisted", "persist_warning"}, r \in {"browser_closed", "driver_stopped"} :
                (e \in Range(trace) /\ r \in Range(trace)) => Pos(trace, e) < Pos(trace, r)

\* A close whose save failed and which released browser and driver all the
\* same.
C10_Witness ==
    /\ pc = "done"
    /\ "persist_warning" \in Range(trace)
    /\ SelectSeq(trace, IsRelease) = <<"browser_closed", "driver_stopped">>

\* C11: a failure at any step of the persistence in close (directory,
\* session snapshot, fingerprint write) is logged as a warning and close
\* goes on: the same step of main() releases the browser process and the
\* driver connection after the warning, completes close, and leaves the
\* search outcome as it was.
C11_SaveFailureContained ==
    [][ (pc = "finally" /\ "persist_warning" \in Range(trace'))
          => /\ pc' = "done"
             /\ outcome' = outcome
             /\ ~world'.browser /\ ~world'.driver /\ ~world'.context
             /\ "close_done" \in Range(trace')
             /\ \A r \in Range(ReleaseSteps(Manager)) :
                  /\ r \in Range(trace')
                  /\ Pos(trace', "persist_warning") < Pos(trace', r)
                  /\ Pos(trace', r) < Pos(trace', "close_done") ]_vars

\* A search was printed, the save then failed on an injected I/O error in
\* the fingerprint write (the session file is there, the fingerprint file
\* is not), and browser and driver were released all the same.
C11_Witness ==
    /\ pc = "done"
    /\ outcome = Printed
    /\ "persist_warning" \in Range(trace)
    /\ ~IsNone(lastSave) /\ The(lastSave).injected
    /\ Manager.state_file \in DOMAIN fs.files
    /\ Manager.fingerprint_file \notin DOMAIN fs.files
    /\ ~world.browser /\ ~world.driver
    /\ "driver_stopped" \in Range(trace)

C13_ColorSchemeByHour ==
    (pc = "launch_stealth" /\ ~IsNone(The(locals).hour))
        => LET h == The(The(locals).hour)
               c == The(locals).fingerprint.colorScheme
           IN /\ h \in 0..23
              /\ c = "dark" <=> (h \in 18..23 \/ h \in 0..6)
              /\ c = "light" <=> h \in 7..17

\* A synthesis at 6 o'clock, the last dark hour of the morning.
C13_Witness ==
    /\ pc = "launch_stealth"
    /\ The(locals).hour = Some(6)
    /\ The(locals).fingerprint.colorScheme = "dark"

\* Text in normal form: no U+200B, no whitespace at either end, and
\* between words one space and nothing else.
IsClean(t) ==
    /\ \A i \in DOMAIN t : t[i] # "zwsp" /\ (t[i] \in Whitespace => t[i] = " ")
    /\ t # <<>> => (t[1] # " " /\ t[Len(t)] # " ")
    /\ \A i \in 1..(Len(t) - 1) : ~(t[i] = " " /\ t[i + 1] = " ")

\* C14: title, link and snippet of every exposed result are in normal form
\* (no U+200B, no leading or trailing whitespace, runs of whitespace
\* collapsed to one space), and the snippet of a candidate that has no
\* snippet node is the empty string.
C14_ResultsNormalized ==
    HasResponse
        => \A i \in DOMAIN Response.results :
             LET r == Response.results[i]
             IN /\ IsClean(r.title) /\ IsClean(r.link) /\ IsClean(r.snippet)
                /\ (\A j \in DOMAIN The(page).links : ~The(page).links[j].container)
                      => r.snippet = <<>>

\* A result whose title and snippet were padded, held tabs, newlines and
\* U+200B, and came out as words separated by one space.
C14_Witness ==
    /\ HasResponse
    /\ Len(Response.results) = 1
    /\ "zwsp" \in Range(The(page).links[1].title)
    /\ Response.results[1].title = <<"T", " ", "U">>
    /\ Response.results[1].snippet = <<"S", " ", "V">>

\* C15: a returned response has totalResults = Len(results), engine
\* "Google", the query that was passed in, and its results in document
\* order: they are the cleaned title and href of hyperlinks of the page,
\* taken at increasing positions.
C15_ResponseShape ==
    HasResponse
        => LET rs == Response.results
               links == The(page).links
           IN /\ Response.totalResults = Len(rs)
              /\ Response.engine = "Google"
              /\ Response.query = request.query
              /\ \E f \in [DOMAIN rs -> DOMAIN links] :
                   /\ \A i, j \in DOMAIN rs : i < j => f[i] < f[j]
                   /\ \A i \in DOMAIN rs :
                        /\ rs[i].link = CleanText(links[f[i]].href)
                        /\ rs[i].title = CleanText(links[f[i]].title)

\* Two results from two different hyperlinks, for the query "tla".
C15_Witness ==
    /\ HasResponse
    /\ Response.query = "tla"
    /\ Response.totalResults = 2
    /\ Response.results[1].link # Response.results[2].link

\* C16: the fingerprint the session context is built from has exactly the
\* seven fields, whatever the fingerprint file holds.
C16_SevenFieldsAlways ==
    pc = "launch_stealth" => DOMAIN The(locals).fingerprint = SevenKeys

\* The fingerprint is one that a synthesis under this invocation's options
\* and environment returns.
IsFresh(fp) ==
    \E e \in SynthesisReads : fp = HostMachineConfig(Opts, envLang, e.hour, e.device, e.tz)

\* C17: what a successful save leaves in the fingerprint file is a newly
\* synthesized fingerprint, whatever fingerprint this invocation loaded,
\* next to the live session snapshot; the next invocation is seeded with
\* that session file and uses the fingerprint written, not the one the
\* invocation before it used.
C17_FreshFingerprintSaved ==
    /\ (pc = "done" /\ ~IsNone(lastSave) /\ ~IsNone(The(lastSave).wrote))
          => /\ IsFresh(The(The(lastSave).wrote))
             /\ fs.files[Manager.fingerprint_file] = FingerprintDoc(The(The(lastSave).wrote))
             /\ fs.files[Manager.state_file] = SessionBlob("live")
    /\ (pc = "launch_stealth" /\ ~IsNone(lastSave) /\ ~IsNone(The(lastSave).wrote))
          => /\ The(locals).storage_state = Some(Manager.state_file)
             /\ The(locals).fingerprint = The(The(lastSave).wrote)

\* C19: the session file path and the fingerprint file path of one
\* BrowserManager are two different paths, for every base path.
C19_DistinctIdentityPaths ==
    ~IsNone(bm) => Manager.state_file # Manager.fingerprint_file

\* C18: the stealth pass has been applied to the session context before
\* any navigation is issued: a step that navigates starts in a state in
\* which the pass is in place and launch has returned.
C18_StealthBeforeNavigation ==
    [][ ("navigate" \in Range(steps') /\ "navigate" \notin Range(steps))
          => /\ world.stealth /\ world.context
             /\ "launched" \in Range(trace) ]_vars

\* A search that navigated, on a context with the stealth pass applied.
C18_Witness ==
    /\ pc \in {"output", "except"}
    /\ "navigate" \in Range(steps)
    /\ world.stealth
    /\ "launched" \in Range(trace)

\* C20: the page search opens is closed on every way out of search: when
\* search has ended, with a response or with an exception (a failure of the
\* screenshot in the except clause included), closing the page was the last
\* thing it did if it had opened one, and no page is left open.
C20_PageClosedOnEveryExit ==
    /\ world.page # "open"
    /\ (pc \in {"output", "except"} /\ "new_page" \in Range(steps))
          => /\ steps[Len(steps)] = "page_closed"
             /\ world.page = "closed"

\* A search that failed, whose screenshot in the except clause failed too,
\* and which closed its page.
C20_Witness ==
    /\ pc = "except"
    /\ SearchRaised
    /\ \E i \in 1..(Len(steps) - 2) :
         /\ steps[i] = "except"
         /\ steps[i + 1] = "screenshot_failed"
         /\ steps[i + 2] = "page_closed"
    /\ world.page = "closed"

\* Launch raised after the driver connection was started and before a
\* session context was created.
LaunchFailedPartway ==
    /\ Raised /\ The(outcome).origin = "launch"
    /\ ~IsNone(bm) /\ Manager.playwright /\ ~Manager.context

\* C21: when launch fails partway (driver connection or browser process
\* started, no session context yet), the orchestrator reports the error and
\* still runs close: close does not enter its persistence step, writes
\* neither identity file, and releases what was started, the browser
\* process if it was launched and then the driver connection.
C21_PartialLaunchReleased ==
    (LaunchFailedPartway /\ pc = "done")
        => /\ "error_reported" \in Range(trace)
           /\ "close_done" \in Range(trace)
           /\ "persisted" \notin Range(trace) /\ "persist_warning" \notin Range(trace)
           /\ fs = fs0
           /\ IdentityFiles \cap DOMAIN fs.files = IdentityFiles \cap DOMAIN fs0.files
           /\ SelectSeq(trace, IsRelease)
                = (IF "browser_launched" \in Range(trace) THEN <<"browser_closed">> ELSE <<>>)
                  \o <<"driver_stopped">>
           /\ ~world.browser /\ ~world.driver /\ ~world.context

\* Creating the context failed with persistence asked for and no identity
\* files there: close released browser and driver and left no file.
C21_Witness ==
    /\ LaunchFailedPartway
    /\ pc = "done"
    /\ "browser_launched" \in Range(trace)
    /\ ~Truthy(Opts.no_save_state)
    /\ fs.files = <<>>
    /\ SelectSeq(trace, IsRelease) = <<"browser_closed", "driver_stopped">>

====
